---- MODULE Spec2Model ----
(***************************************************************************)
(* Model of the controlPID class (ControlPID.h / ControlPID.cpp).          *)
(*                                                                         *)
(* Numbers.  The float fields hold integers here.  The gains, errors and   *)
(* sampling intervals are drawn from sets on which every product and every *)
(* quotient the code computes is an integer of small magnitude, so the     *)
(* float arithmetic of the code is exact on them and the integer           *)
(* arithmetic below computes the same values: the errors are all even and  *)
(* Ti, Td are 0 or 1, the sampling interval is one or two seconds.         *)
(*                                                                         *)
(* Time.  micros() is a 32-bit microsecond counter that wraps; unsigned    *)
(* arithmetic on it is taken modulo 2^32.  The model checker's integers    *)
(* are 32-bit signed, so an unsigned long is held as its two 16-bit halves *)
(* <<high, low>>, its value being high * 2^16 + low.                       *)
(***************************************************************************)
EXTENDS Integers, FiniteSets, Sequences, TLC

VARIABLES
    Salida, Proporcional, Integral, Derivativo,   \* float fields (ControlPID.h:23-27)
    Kp, Ti, Td,                                   \* gains (ControlPID.h:28-30)
    TiempoAnterior, ErrorAnterior,                \* previous sample (ControlPID.h:31-32)
    LimitaSalida, LimitaIntegral, CondicionaIntegral,   \* flags (ControlPID.h:33-36)
    SalidaMax, SalidaMin,                         \* bounds (ControlPID.h:37-38)
    micros,                                       \* the value micros() returned last
    llamada,                                      \* history: the last call, when it was Controlar or the constructor
    total,                                        \* history: number of Controlar calls so far
    desdeReset,                                   \* history: Controlar calls since the last reset
    limitesPuestos                                \* history: LimitarSalida(R, SMIN, SMAX) was called

vars == <<Salida, Proporcional, Integral, Derivativo, Kp, Ti, Td,
          TiempoAnterior, ErrorAnterior, LimitaSalida, LimitaIntegral,
          CondicionaIntegral, SalidaMax, SalidaMin, micros, llamada, total,
          desdeReset, limitesPuestos>>

\* ---------------------------------------------------------------- constants
MILLON == 1000000

\* unsigned long (TiempoAnterior, micros()) is 32 bits wide on the target:
\* two halves of 16 bits each.
Mitad == 2^16

\* The unsigned long whose value is n, for 0 <= n < 2^31.
EnU32(n) == <<n \div Mitad, n % Mitad>>

\* unsigned long addition t + n modulo 2^32, n an integer (negative: subtraction).
SumaU32(t, n) ==
    LET bajo == t[2] + n
    IN  <<(t[1] + (bajo \div Mitad)) % Mitad, bajo % Mitad>>

\* unsigned long subtraction a - b modulo 2^32, as a number.
RestaU32(a, b) ==
    LET bajo == a[2] - b[2]
        alto == (a[1] - b[1] + (bajo \div Mitad)) % Mitad
    IN  alto * Mitad + (bajo % Mitad)

\* t > 0 for an unsigned long t.
PositivoU32(t) == t[1] > 0 \/ t[2] > 0

\* ------------------------------------------------------------------- bounds
\* Number of Controlar calls in a run.
MaxLlamadas == 3

\* Gains the caller passes to the constructor and to ConfigurarPID.
ValoresKp == {-1, 2}
ValoresTi == {0, 1}
ValoresTd == {0, 1}

\* Error values the caller passes to Controlar (all even, see the header).
Errores == {-2, 2}

\* Bounds the caller passes as SMIN, SMAX.
Limites == {1, 3}

\* Values a float field never written by the constructor may hold: zero for
\* an object in static storage, anything for an automatic or heap object.
Indeterminado == {0, 3}

\* Microseconds elapsed between two successive reads of micros().
Pasos == {MILLON, 2 * MILLON}

\* micros() when the object is constructed: right after boot, or two seconds
\* before the 32-bit counter wraps.
Arranque == {EnU32(0), SumaU32(EnU32(0), -(2 * MILLON))}

\* ------------------------------------------------------------ history record
NingunaLlamada ==
    [op |-> "ninguna", ERROR |-> 0, valor |-> 0, transcurrido |-> 0,
     ErrorAntes |-> 0, TiempoAntes |-> EnU32(0), IntegralAntes |-> 0,
     Saturada |-> FALSE]

\* The history right after the constructor, before any other call.
Construida == [NingunaLlamada EXCEPT !.op = "controlPID"]

\* ---------------------------------------------------------------- helpers
\* Arduino.h: #define min(a,b) ((a)<(b)?(a):(b))
min(a, b) == IF a < b THEN a ELSE b

\* Arduino.h: #define max(a,b) ((a)>(b)?(a):(b))
max(a, b) == IF a > b THEN a ELSE b

\* Variant of Saturar that forgets the second line, "x = max(x, lo);".
SaturarSoloArriba(x, lo, hi) == min(x, hi)

\* x = min(x, hi); x = max(x, lo);   (ControlPID.cpp:168-169 and 180-181)
Saturar(x, lo, hi) == max(min(x, hi), lo)

\* (TiempoActual-TiempoAnterior), the operands unsigned long
Transcurrido(TiempoActual, Anterior) == RestaU32(TiempoActual, Anterior)

\* ------------------------------------------------------------- construction
\* controlPID::controlPID: ConfigurarPID(KP,TI,TD), then the three flags are
\* set false.  Salida, Proporcional, Derivativo, SalidaMax and SalidaMin are
\* not written by the constructor.
Init ==
    /\ Kp \in ValoresKp
    /\ Ti \in ValoresTi
    /\ Td \in ValoresTd
    /\ TiempoAnterior = EnU32(0)
    /\ ErrorAnterior = 0
    /\ Integral = 0
    /\ LimitaSalida = FALSE
    /\ LimitaIntegral = FALSE
    /\ CondicionaIntegral = FALSE
    /\ SalidaMax \in Indeterminado
    /\ SalidaMin \in Indeterminado
    /\ Salida \in Indeterminado
    /\ Proporcional \in Indeterminado
    /\ Derivativo \in Indeterminado
    /\ micros \in Arranque
    /\ llamada = Construida
    /\ total = 0
    /\ desdeReset = 0
    /\ limitesPuestos = FALSE

\* ---------------------------------------------------------------- operations
\* Variant of ConfigurarPID that forgets "Integral=0;".
ConfigurarPIDSinIntegral(KP, TI, TD) ==
    /\ Kp' = KP
    /\ Ti' = TI
    /\ Td' = TD
    /\ TiempoAnterior' = EnU32(0)
    /\ ErrorAnterior' = 0
    /\ llamada' = NingunaLlamada
    /\ desdeReset' = 0
    /\ UNCHANGED <<Integral, Salida, Proporcional, Derivativo, LimitaSalida,
                   LimitaIntegral, CondicionaIntegral, SalidaMax, SalidaMin,
                   micros, total, limitesPuestos>>

\* Variant of ConfigurarPID with the three commented-out lines
\* (ControlPID.cpp:48-50) active: it also clears the flags.
ConfigurarPIDConBanderas(KP, TI, TD) ==
    /\ Kp' = KP
    /\ Ti' = TI
    /\ Td' = TD
    /\ TiempoAnterior' = EnU32(0)
    /\ ErrorAnterior' = 0
    /\ Integral' = 0
    /\ LimitaSalida' = FALSE
    /\ LimitaIntegral' = FALSE
    /\ CondicionaIntegral' = FALSE
    /\ llamada' = NingunaLlamada
    /\ desdeReset' = 0
    /\ UNCHANGED <<Salida, Proporcional, Derivativo, SalidaMax, SalidaMin,
                   micros, total, limitesPuestos>>

\* void controlPID::ConfigurarPID(float KP, float TI, float TD)
ConfigurarPID(KP, TI, TD) ==
    /\ Kp' = KP
    /\ Ti' = TI
    /\ Td' = TD
    /\ TiempoAnterior' = EnU32(0)
    /\ ErrorAnterior' = 0
    /\ Integral' = 0
    /\ llamada' = NingunaLlamada
    /\ desdeReset' = 0
    /\ UNCHANGED <<Salida, Proporcional, Derivativo, LimitaSalida,
                   LimitaIntegral, CondicionaIntegral, SalidaMax, SalidaMin,
                   micros, total, limitesPuestos>>

\* The value LimitarSalida(RESPUESTA) leaves in LimitaSalida and returns.
DevuelveLimitarSalida(RESPUESTA) ==
    IF SalidaMax = 0 /\ SalidaMin = 0 THEN FALSE ELSE RESPUESTA

\* boolean controlPID::LimitarSalida(boolean RESPUESTA)
LimitarSalida(RESPUESTA) ==
    /\ LimitaSalida' = DevuelveLimitarSalida(RESPUESTA)
    /\ llamada' = NingunaLlamada
    /\ UNCHANGED <<Salida, Proporcional, Integral, Derivativo, Kp, Ti, Td,
                   TiempoAnterior, ErrorAnterior, LimitaIntegral,
                   CondicionaIntegral, SalidaMax, SalidaMin, micros, total,
                   desdeReset, limitesPuestos>>

\* The value LimitarSalida(RESPUESTA, SMIN, SMAX) leaves in LimitaSalida and
\* returns.
DevuelveLimitarSalidaLimites(RESPUESTA, SMIN, SMAX) ==
    IF SMAX = SMIN THEN FALSE
    ELSE IF SMIN > SMAX THEN FALSE
    ELSE RESPUESTA

\* boolean controlPID::LimitarSalida(boolean RESPUESTA, float SMIN, float SMAX)
LimitarSalidaLimites(RESPUESTA, SMIN, SMAX) ==
    /\ SalidaMax' = SMAX
    /\ SalidaMin' = SMIN
    /\ LimitaSalida' = DevuelveLimitarSalidaLimites(RESPUESTA, SMIN, SMAX)
    /\ llamada' = NingunaLlamada
    /\ limitesPuestos' = TRUE
    /\ UNCHANGED <<Salida, Proporcional, Integral, Derivativo, Kp, Ti, Td,
                   TiempoAnterior, ErrorAnterior, LimitaIntegral,
                   CondicionaIntegral, micros, total, desdeReset>>

\* The value LimitarIntegral(RESPUESTA) leaves in LimitaIntegral and returns.
DevuelveLimitarIntegral(RESPUESTA) ==
    IF SalidaMax = SalidaMin THEN FALSE ELSE RESPUESTA

\* boolean controlPID::LimitarIntegral(boolean RESPUESTA)
LimitarIntegral(RESPUESTA) ==
    /\ LimitaIntegral' = DevuelveLimitarIntegral(RESPUESTA)
    /\ llamada' = NingunaLlamada
    /\ UNCHANGED <<Salida, Proporcional, Integral, Derivativo, Kp, Ti, Td,
                   TiempoAnterior, ErrorAnterior, LimitaSalida,
                   CondicionaIntegral, SalidaMax, SalidaMin, micros, total,
                   desdeReset, limitesPuestos>>

\* The value CondicionarIntegral(RESPUESTA) leaves in CondicionaIntegral and
\* returns.
DevuelveCondicionarIntegral(RESPUESTA) ==
    IF ~LimitaSalida THEN FALSE ELSE RESPUESTA

\* boolean controlPID::CondicionarIntegral(boolean RESPUESTA)
CondicionarIntegral(RESPUESTA) ==
    /\ CondicionaIntegral' = DevuelveCondicionarIntegral(RESPUESTA)
    /\ llamada' = NingunaLlamada
    /\ UNCHANGED <<Salida, Proporcional, Integral, Derivativo, Kp, Ti, Td,
                   TiempoAnterior, ErrorAnterior, LimitaSalida, LimitaIntegral,
                   SalidaMax, SalidaMin, micros, total, desdeReset,
                   limitesPuestos>>

\* if (TiempoAnterior>0 && ...): this is not the first calculation.
HayMuestraAnterior == PositivoU32(TiempoAnterior)

\* Variant of DerivativoNuevo that guards against the counter going back:
\* "if (TiempoActual>TiempoAnterior && TiempoAnterior>0 && Td!=0)".
DerivativoNuevoSinVuelta(ERROR, TiempoActual) ==
    IF /\ HayMuestraAnterior /\ Td # 0
       /\ \/ TiempoActual[1] > TiempoAnterior[1]
          \/ /\ TiempoActual[1] = TiempoAnterior[1]
             /\ TiempoActual[2] > TiempoAnterior[2]
    THEN (Kp * Td * (ERROR - ErrorAnterior) * MILLON)
             \div Transcurrido(TiempoActual, TiempoAnterior)
    ELSE 0

\* DERIVATIVO (ControlPID.cpp:141-147)
DerivativoNuevo(ERROR, TiempoActual) ==
    IF HayMuestraAnterior /\ Td # 0
    THEN (Kp * Td * (ERROR - ErrorAnterior) * MILLON)
             \div Transcurrido(TiempoActual, TiempoAnterior)
    ELSE 0

\* Should the output saturate? (ControlPID.cpp:150-154), S the provisional output
EstaSaturada(S) == LimitaSalida /\ (S > SalidaMax \/ S < SalidaMin)

\* Variant of IntegralNueva with the clamp (ControlPID.cpp:166-170) moved
\* out of the block guarded by "TiempoAnterior>0 && Ti!=0": it clamps on
\* every call.
IntegralNuevaSaturaSiempre(ERROR, TiempoActual, SalidaEstaSaturada) ==
    LET sumada ==
            IF /\ HayMuestraAnterior /\ Ti # 0
               /\ (~CondicionaIntegral \/ ~SalidaEstaSaturada)
            THEN Integral
                 + (Kp * (ERROR + ErrorAnterior)
                       * Transcurrido(TiempoActual, TiempoAnterior))
                   \div (2 * Ti * MILLON)
            ELSE Integral
    IN  IF LimitaIntegral THEN Saturar(sumada, SalidaMin, SalidaMax)
        ELSE sumada

\* INTEGRAL (ControlPID.cpp:157-171)
IntegralNueva(ERROR, TiempoActual, SalidaEstaSaturada) ==
    IF HayMuestraAnterior /\ Ti # 0
    THEN LET sumada ==
                 IF ~CondicionaIntegral \/ ~SalidaEstaSaturada
                 THEN Integral
                      + (Kp * (ERROR + ErrorAnterior)
                            * Transcurrido(TiempoActual, TiempoAnterior))
                        \div (2 * Ti * MILLON)
                 ELSE Integral
         IN  IF LimitaIntegral THEN Saturar(sumada, SalidaMin, SalidaMax)
             ELSE sumada
    ELSE Integral

\* Final output (ControlPID.cpp:176-182), S the recomputed sum
SalidaFinal(S) == IF LimitaSalida THEN Saturar(S, SalidaMin, SalidaMax) ELSE S

\* Variant of Controlar without the final recomputation "Salida =
\* Proporcional + Integral + Derivativo;" (ControlPID.cpp:176): the output is
\* the provisional sum, with the integral of the previous cycle.
ControlarSinRecalculo ==
    /\ total < MaxLlamadas
    /\ \E ERROR \in Errores, paso \in Pasos :
        LET TiempoActual == SumaU32(micros, paso)
            P == Kp * ERROR
            D == DerivativoNuevo(ERROR, TiempoActual)
            SalidaEstaSaturada == EstaSaturada(P + Integral + D)
            I == IntegralNueva(ERROR, TiempoActual, SalidaEstaSaturada)
            S == SalidaFinal(P + Integral + D)
        IN  /\ micros' = TiempoActual
            /\ Proporcional' = P
            /\ Derivativo' = D
            /\ Integral' = I
            /\ Salida' = S
            /\ TiempoAnterior' = TiempoActual
            /\ ErrorAnterior' = ERROR
            /\ llamada' = [NingunaLlamada EXCEPT
                              !.op = "Controlar", !.ERROR = ERROR, !.valor = S,
                              !.transcurrido = paso,
                              !.ErrorAntes = ErrorAnterior,
                              !.TiempoAntes = TiempoAnterior,
                              !.IntegralAntes = Integral,
                              !.Saturada = SalidaEstaSaturada]
            /\ total' = total + 1
            /\ desdeReset' = desdeReset + 1
            /\ UNCHANGED <<Kp, Ti, Td, LimitaSalida, LimitaIntegral,
                           CondicionaIntegral, SalidaMax, SalidaMin,
                           limitesPuestos>>

\* float controlPID::Controlar(float ERROR)
\* micros() returns a value strictly later than the one it returned last.
Controlar ==
    /\ total < MaxLlamadas
    /\ \E ERROR \in Errores, paso \in Pasos :
        LET TiempoActual == SumaU32(micros, paso)
            P == Kp * ERROR
            D == DerivativoNuevo(ERROR, TiempoActual)
            SalidaEstaSaturada == EstaSaturada(P + Integral + D)
            I == IntegralNueva(ERROR, TiempoActual, SalidaEstaSaturada)
            S == SalidaFinal(P + I + D)
        IN  /\ micros' = TiempoActual
            /\ Proporcional' = P
            /\ Derivativo' = D
            /\ Integral' = I
            /\ Salida' = S
            /\ TiempoAnterior' = TiempoActual
            /\ ErrorAnterior' = ERROR
            /\ llamada' = [NingunaLlamada EXCEPT
                              !.op = "Controlar", !.ERROR = ERROR, !.valor = S,
                              !.transcurrido = paso,
                              !.ErrorAntes = ErrorAnterior,
                              !.TiempoAntes = TiempoAnterior,
                              !.IntegralAntes = Integral,
                              !.Saturada = SalidaEstaSaturada]
            /\ total' = total + 1
            /\ desdeReset' = desdeReset + 1
            /\ UNCHANGED <<Kp, Ti, Td, LimitaSalida, LimitaIntegral,
                           CondicionaIntegral, SalidaMax, SalidaMin,
                           limitesPuestos>>

\* Variant of Apagar that forgets "TiempoAnterior=0;".
ApagarSinTiempo ==
    /\ ErrorAnterior' = 0
    /\ Integral' = 0
    /\ Proporcional' = 0
    /\ Derivativo' = 0
    /\ llamada' = NingunaLlamada
    /\ desdeReset' = 0
    /\ UNCHANGED <<TiempoAnterior, Salida, Kp, Ti, Td, LimitaSalida,
                   LimitaIntegral, CondicionaIntegral, SalidaMax, SalidaMin,
                   micros, total, limitesPuestos>>

\* Variant of Apagar that also clears Salida.
ApagarConSalida ==
    /\ TiempoAnterior' = EnU32(0)
    /\ ErrorAnterior' = 0
    /\ Integral' = 0
    /\ Proporcional' = 0
    /\ Derivativo' = 0
    /\ Salida' = 0
    /\ llamada' = NingunaLlamada
    /\ desdeReset' = 0
    /\ UNCHANGED <<Kp, Ti, Td, LimitaSalida, LimitaIntegral,
                   CondicionaIntegral, SalidaMax, SalidaMin, micros, total,
                   limitesPuestos>>

\* void controlPID::Apagar()
Apagar ==
    /\ TiempoAnterior' = EnU32(0)
    /\ ErrorAnterior' = 0
    /\ Integral' = 0
    /\ Proporcional' = 0
    /\ Derivativo' = 0
    /\ llamada' = NingunaLlamada
    /\ desdeReset' = 0
    /\ UNCHANGED <<Salida, Kp, Ti, Td, LimitaSalida, LimitaIntegral,
                   CondicionaIntegral, SalidaMax, SalidaMin, micros, total,
                   limitesPuestos>>

Next ==
    \/ \E KP \in ValoresKp, TI \in ValoresTi, TD \in ValoresTd :
           ConfigurarPID(KP, TI, TD)
    \/ \E RESPUESTA \in BOOLEAN : LimitarSalida(RESPUESTA)
    \/ \E RESPUESTA \in BOOLEAN, SMIN \in Limites, SMAX \in Limites :
           LimitarSalidaLimites(RESPUESTA, SMIN, SMAX)
    \/ \E RESPUESTA \in BOOLEAN : LimitarIntegral(RESPUESTA)
    \/ \E RESPUESTA \in BOOLEAN : CondicionarIntegral(RESPUESTA)
    \/ Controlar
    \/ Apagar

Spec == Init /\ [][Next]_vars

\* The object has static storage duration (the usual Arduino sketch declares
\* it at file scope): its memory is zero before the constructor runs, so the
\* fields the constructor does not write are 0.
InitEstatico ==
    /\ Init
    /\ SalidaMax = 0
    /\ SalidaMin = 0
    /\ Salida = 0
    /\ Proporcional = 0
    /\ Derivativo = 0

SpecEstatico == InitEstatico /\ [][Next]_vars

\* =================================================================== claims
\* The last call was Controlar: the fields are as that call left them.
TrasControlar == llamada.op = "Controlar"

\* The trapezoidal increment of the last Controlar call, from the error of
\* the call before it and the time that really elapsed between the two.
IncrementoEsperado ==
    (Kp * (llamada.ERROR + llamada.ErrorAntes) * llamada.transcurrido)
        \div (2 * Ti * MILLON)

\* The derivative of the last Controlar call, from the error of the call
\* before it and the time that really elapsed between the two.
DerivativoEsperado ==
    (Kp * Td * (llamada.ERROR - llamada.ErrorAntes) * MILLON)
        \div llamada.transcurrido

\* C1: when output limiting is enabled at a Controlar call, the value it
\* returns, and Salida right after it, lie in [SalidaMin, SalidaMax].
C1_SalidaEnLimites ==
    (TrasControlar /\ LimitaSalida) =>
        /\ SalidaMin <= llamada.valor /\ llamada.valor <= SalidaMax
        /\ SalidaMin <= Salida /\ Salida <= SalidaMax

\* C2 as stated: when integral limiting is enabled, Integral right after any
\* Controlar call lies in [SalidaMin, SalidaMax], the first call after a
\* reset and the calls with Ti = 0 included.
C2_IntegralEnLimites ==
    (TrasControlar /\ LimitaIntegral) =>
        (SalidaMin <= Integral /\ Integral <= SalidaMax)

\* The last Controlar call found a previous sample (TiempoAnterior > 0) and
\* an integration time: it went through the integral block.
PasoPorIntegral == PositivoU32(llamada.TiempoAntes) /\ Ti # 0

\* C2 amended: when integral limiting is enabled, Integral right after a
\* Controlar call that found TiempoAnterior > 0 and Ti # 0 is at least
\* SalidaMin and at most SalidaMax (it is SalidaMin when the stored bounds are
\* inverted); after any other Controlar call Integral is what it was before
\* the call, not clamped.
C2_IntegralSaturada ==
    TrasControlar =>
        /\ (LimitaIntegral /\ PasoPorIntegral) =>
              /\ Integral >= SalidaMin
              /\ Integral <= SalidaMax \/ Integral = SalidaMin
        /\ ~PasoPorIntegral => Integral = llamada.IntegralAntes

\* C2 witness: a call that integrated past SalidaMax, with valid bounds, and
\* whose integral was cut to SalidaMax.
C2_Testigo ==
    /\ TrasControlar /\ LimitaIntegral /\ PasoPorIntegral
    /\ SalidaMin < SalidaMax
    /\ ~(CondicionaIntegral /\ llamada.Saturada)
    /\ llamada.IntegralAntes + IncrementoEsperado > SalidaMax
    /\ Integral = SalidaMax

\* C3: in every reachable state, integral conditioning is enabled only if
\* output limiting is enabled.
C3_CondicionaSoloSiLimita == CondicionaIntegral => LimitaSalida

\* C4: in every reachable state, output limiting is enabled only if
\* SalidaMin # SalidaMax and SalidaMin <= SalidaMax.
C4_LimitaSalidaSoloConLimites ==
    LimitaSalida => (SalidaMin # SalidaMax /\ SalidaMin <= SalidaMax)

\* C5: in every reachable state, integral limiting is enabled only if
\* SalidaMin # SalidaMax and SalidaMin <= SalidaMax.
C5_LimitaIntegralSoloConLimites ==
    LimitaIntegral => (SalidaMin # SalidaMax /\ SalidaMin <= SalidaMax)

\* C6: a setter called with RESPUESTA = true under an invalid configuration
\* (equal or inverted bounds for the two LimitarSalida overloads and for
\* LimitarIntegral, output limiting disabled for CondicionarIntegral) returns
\* false and leaves its flag false, the returned value being the flag's.
C6_RechazoDevuelveFalso ==
    [][ /\ (LimitarSalida(TRUE) /\ SalidaMin >= SalidaMax) =>
              (~DevuelveLimitarSalida(TRUE) /\ ~LimitaSalida')
        /\ \A SMIN \in Limites, SMAX \in Limites :
              (LimitarSalidaLimites(TRUE, SMIN, SMAX) /\ SMIN >= SMAX) =>
                  (~DevuelveLimitarSalidaLimites(TRUE, SMIN, SMAX)
                   /\ ~LimitaSalida')
        /\ (LimitarIntegral(TRUE) /\ SalidaMin >= SalidaMax) =>
              (~DevuelveLimitarIntegral(TRUE) /\ ~LimitaIntegral')
        /\ (CondicionarIntegral(TRUE) /\ ~LimitaSalida) =>
              (~DevuelveCondicionarIntegral(TRUE) /\ ~CondicionaIntegral')
      ]_vars

\* C7: as long as the three-argument LimitarSalida has not been called since
\* construction, output limiting stays disabled (every LimitarSalida(true)
\* is refused).
C7_SinLimitesNoActiva == ~limitesPuestos => ~LimitaSalida

\* C8: the first Controlar call after construction, ConfigurarPID or Apagar
\* yields Derivativo = 0 and leaves Integral at its reset value 0.
C8_PrimeraLlamada ==
    (TrasControlar /\ desdeReset = 1) =>
        (Derivativo = 0 /\ Integral = 0 /\ llamada.IntegralAntes = 0)

\* C8 witness: a first call after a reset that followed earlier calls, with
\* both time constants set, a nonzero error and integral limiting enabled
\* with bounds that exclude 0.
C8_Testigo ==
    /\ TrasControlar /\ desdeReset = 1 /\ total >= 2
    /\ Td # 0 /\ Ti # 0 /\ llamada.ERROR # 0
    /\ LimitaIntegral /\ SalidaMin > 0 /\ SalidaMin < SalidaMax

\* C9: on the second and every later Controlar call since the last reset,
\* with Td # 0 the derivative is computed from the previous sample, and with
\* Ti # 0 and integration not held the integral is updated, whatever
\* micros() returned on the earlier calls.
C9_SegundaLlamada ==
    (TrasControlar /\ desdeReset >= 2) =>
        /\ Td # 0 => Derivativo = DerivativoEsperado
        /\ (Ti # 0 /\ ~(CondicionaIntegral /\ llamada.Saturada)) =>
              Integral = IF LimitaIntegral
                         THEN Saturar(llamada.IntegralAntes + IncrementoEsperado,
                                      SalidaMin, SalidaMax)
                         ELSE llamada.IntegralAntes + IncrementoEsperado

\* C10 as stated: with Ti = 0 and Td = 0 every Controlar(e) returns exactly
\* Kp * e.
C10_SoloProporcional ==
    (TrasControlar /\ Ti = 0 /\ Td = 0) => llamada.valor = Kp * llamada.ERROR

\* C10 amended: with Ti = 0 and Td = 0 every Controlar(e) returns Kp * e
\* when output limiting is disabled, and Kp * e lowered to SalidaMax and then
\* raised to SalidaMin when it is enabled.
C10_SoloProporcionalLimitada ==
    (TrasControlar /\ Ti = 0 /\ Td = 0) =>
        LET p == Kp * llamada.ERROR
            bajada == IF p < SalidaMax THEN p ELSE SalidaMax
            subida == IF bajada > SalidaMin THEN bajada ELSE SalidaMin
        IN  llamada.valor = IF LimitaSalida THEN subida ELSE p

\* C10 witness: a purely proportional call, not the first since the reset,
\* with a negative gain, whose product is cut by the output limit.
C10_Testigo ==
    /\ TrasControlar /\ Ti = 0 /\ Td = 0 /\ Kp < 0 /\ desdeReset >= 2
    /\ LimitaSalida /\ SalidaMin < SalidaMax
    /\ llamada.valor # Kp * llamada.ERROR

\* C11: ConfigurarPID(KP, TI, TD) replaces the three gains, resets
\* TiempoAnterior to 0 (unset), ErrorAnterior to 0 and Integral to 0, and
\* leaves the three flags and the two bounds unchanged, from every reachable
\* state.
C11_ConfigurarConserva ==
    [][ \A KP \in ValoresKp, TI \in ValoresTi, TD \in ValoresTd :
          ConfigurarPID(KP, TI, TD) =>
              /\ Kp' = KP /\ Ti' = TI /\ Td' = TD
              /\ ~PositivoU32(TiempoAnterior')
              /\ ErrorAnterior' = 0
              /\ Integral' = 0
              /\ LimitaSalida' = LimitaSalida
              /\ LimitaIntegral' = LimitaIntegral
              /\ CondicionaIntegral' = CondicionaIntegral
              /\ SalidaMin' = SalidaMin
              /\ SalidaMax' = SalidaMax
      ]_vars

\* C11 witness: ConfigurarPID has acted after a Controlar call (the running
\* state is reset while Proporcional, which only Apagar clears, still holds
\* the call's value) and the three flags and the bounds are still set.
C11_Testigo ==
    /\ total >= 2 /\ desdeReset = 0 /\ Proporcional # 0
    /\ ~PositivoU32(TiempoAnterior) /\ ErrorAnterior = 0 /\ Integral = 0
    /\ LimitaSalida /\ LimitaIntegral /\ CondicionaIntegral
    /\ SalidaMin = 1 /\ SalidaMax = 3

\* C12: Apagar() sets TiempoAnterior to 0 (unset) and ErrorAnterior,
\* Integral, Proporcional and Derivativo to 0, so the three getters return
\* 0 afterwards; Salida (ObtenerSalida) keeps the value it had before, and
\* the gains, the bounds and the three flags are unchanged.
C12_ApagarConserva ==
    [][ Apagar =>
          /\ ~PositivoU32(TiempoAnterior')
          /\ ErrorAnterior' = 0
          /\ Integral' = 0
          /\ Proporcional' = 0
          /\ Derivativo' = 0
          /\ Salida' = Salida
          /\ Kp' = Kp /\ Ti' = Ti /\ Td' = Td
          /\ SalidaMin' = SalidaMin
          /\ SalidaMax' = SalidaMax
          /\ LimitaSalida' = LimitaSalida
          /\ LimitaIntegral' = LimitaIntegral
          /\ CondicionaIntegral' = CondicionaIntegral
      ]_vars

\* C12 witness: Apagar has acted after a Controlar call: the terms are
\* cleared (after Controlar Proporcional is never 0 with these inputs), and
\* Salida still holds the negative value the call returned.
C12_Testigo ==
    /\ total >= 2 /\ desdeReset = 0
    /\ Proporcional = 0 /\ Derivativo = 0 /\ Integral = 0
    /\ ~PositivoU32(TiempoAnterior) /\ ErrorAnterior = 0
    /\ Salida < 0
    /\ Ti = 1 /\ Td = 1

\* The state the constructor leaves, before any other call.
TrasConstruir == llamada.op = "controlPID"

\* C13: immediately after the constructor controlPID(KP, TI, TD) the gains
\* are the given ones, the running state is zero (Integral, Proporcional,
\* Derivativo, Salida and ErrorAnterior are 0, TiempoAnterior is unset) and
\* the three flags are disabled.
C13_ConstruidaEnCero ==
    TrasConstruir =>
        /\ Kp \in ValoresKp /\ Ti \in ValoresTi /\ Td \in ValoresTd
        /\ Integral = 0
        /\ Proporcional = 0
        /\ Derivativo = 0
        /\ Salida = 0
        /\ ErrorAnterior = 0
        /\ ~PositivoU32(TiempoAnterior)
        /\ ~LimitaSalida /\ ~LimitaIntegral /\ ~CondicionaIntegral

\* The provisional output of the last Controlar call (ControlPID.cpp:150):
\* its proportional and derivative terms plus the integral it found.
SalidaProvisional == Proporcional + llamada.IntegralAntes + Derivativo

\* The provisional output of the last Controlar call is above SalidaMax or
\* below SalidaMin.
ProvisionalFuera ==
    SalidaProvisional > SalidaMax \/ SalidaProvisional < SalidaMin

\* The last Controlar call ran with conditioning and output limiting enabled
\* and a provisional output out of range: the integral is held.
Retenida ==
    TrasControlar /\ CondicionaIntegral /\ LimitaSalida /\ ProvisionalFuera

\* The integral of the last Controlar call, incremented by the trapezoid and
\* then clamped if integral limiting is enabled.
IntegralIncrementada ==
    IF LimitaIntegral
    THEN Saturar(llamada.IntegralAntes + IncrementoEsperado, SalidaMin, SalidaMax)
    ELSE llamada.IntegralAntes + IncrementoEsperado

\* C14: in a Controlar call with conditioning and output limiting enabled
\* whose provisional output is out of [SalidaMin, SalidaMax], Integral is not
\* incremented (it changes only by the integral-limit clamp, if enabled); and
\* when the call that follows a held call (with Ti # 0) has its provisional
\* output back inside the range, that call increments the integral.
C14_RetieneYReanuda ==
    [][ (llamada.op' = "Controlar") =>
          /\ Retenida' =>
                \/ Integral' = Integral
                \/ /\ LimitaIntegral
                   /\ Integral' = Saturar(Integral, SalidaMin, SalidaMax)
          /\ ( /\ Retenida
               /\ CondicionaIntegral /\ LimitaSalida /\ Ti # 0
               /\ ~ProvisionalFuera' ) =>
                Integral' = IntegralIncrementada'
      ]_vars

\* C15: after every Controlar call the value it returned equals Salida
\* (ObtenerSalida), and Salida equals Proporcional + Integral + Derivativo
\* when output limiting is disabled, or that sum lowered to SalidaMax and
\* then raised to SalidaMin when it is enabled, Integral being the integral
\* as this same call updated and clamped it.
C15_SalidaCoherente ==
    TrasControlar =>
        /\ llamada.valor = Salida
        /\ Salida = IF LimitaSalida
                    THEN max(min(Proporcional + Integral + Derivativo, SalidaMax),
                             SalidaMin)
                    ELSE Proporcional + Integral + Derivativo

\* C15 witness: a call that incremented the integral past SalidaMax and
\* clamped it, and whose final sum, above SalidaMax too, was returned as
\* SalidaMax.
C15_Testigo ==
    /\ TrasControlar /\ LimitaSalida /\ LimitaIntegral /\ PasoPorIntegral
    /\ SalidaMin < SalidaMax
    /\ llamada.IntegralAntes + IncrementoEsperado > SalidaMax
    /\ Integral = SalidaMax /\ Integral # llamada.IntegralAntes
    /\ Proporcional + Integral + Derivativo > SalidaMax
    /\ Salida = SalidaMax /\ llamada.valor = SalidaMax

\* C16: on a Controlar call that is not the first since the last reset, with
\* Ti # 0, integration not held and integral limiting disabled, Integral
\* grows by exactly Kp * (ERROR + ErrorAnterior) * elapsed seconds / (2 * Ti),
\* ErrorAnterior and the elapsed time being those of the call just before.
C16_Trapecio ==
    ( /\ TrasControlar /\ desdeReset >= 2
      /\ Ti # 0 /\ ~Retenida /\ ~LimitaIntegral ) =>
        Integral = llamada.IntegralAntes + IncrementoEsperado

\* C17: in every Controlar call with output limiting disabled, not the first
\* since the last reset and with Ti # 0, the trapezoidal increment is applied
\* whatever CondicionaIntegral is, and the value returned is the unclamped
\* sum of the three terms.
C17_SinLimiteNoRetiene ==
    ( /\ TrasControlar /\ ~LimitaSalida
      /\ desdeReset >= 2 /\ Ti # 0 ) =>
        /\ Integral = IntegralIncrementada
        /\ llamada.valor = Proporcional + Integral + Derivativo

\* C18: in every reachable state Ti = 0 implies Integral = 0, and a Controlar
\* call with Ti = 0 leaves Integral as it found it (neither increment nor
\* clamp).
C18_SinTiSinIntegral ==
    /\ Ti = 0 => Integral = 0
    /\ (TrasControlar /\ Ti = 0) => Integral = llamada.IntegralAntes

\* C18 witness: with Ti = 0, a second call in a row with an error of the
\* same sign, integral limiting enabled and valid bounds that exclude 0.
C18_Testigo ==
    /\ TrasControlar /\ Ti = 0 /\ desdeReset >= 2
    /\ PositivoU32(llamada.TiempoAntes)
    /\ llamada.ERROR + llamada.ErrorAntes # 0
    /\ LimitaIntegral /\ 0 < SalidaMin /\ SalidaMin < SalidaMax
    /\ Integral = 0

\* The counter wrapped between the last Controlar call and the one before:
\* the time the last call read is below the one it found stored.
DioLaVuelta ==
    \/ TiempoAnterior[1] < llamada.TiempoAntes[1]
    \/ /\ TiempoAnterior[1] = llamada.TiempoAntes[1]
       /\ TiempoAnterior[2] < llamada.TiempoAntes[2]

\* C19: when a Controlar call finds a stored TiempoAnterior that is not 0, the
\* interval it uses, (TiempoActual - TiempoAnterior) modulo 2^32, is the time
\* that really elapsed since the call before, positive, also when the counter
\* wrapped once in between; the derivative and the integral are computed from
\* that interval.
C19_IntervaloModular ==
    (TrasControlar /\ PositivoU32(llamada.TiempoAntes)) =>
        /\ RestaU32(TiempoAnterior, llamada.TiempoAntes) = llamada.transcurrido
        /\ llamada.transcurrido > 0
        /\ Derivativo = IF Td # 0 THEN DerivativoEsperado ELSE 0
        /\ (Ti # 0 /\ ~Retenida) => Integral = IntegralIncrementada

\* C19 witness: the counter wrapped between two calls two seconds apart, the
\* earlier one stored a time that is not 0, and the later one computed a
\* derivative that is not 0 from the two seconds, with the integral active.
C19_Testigo ==
    /\ TrasControlar /\ PositivoU32(llamada.TiempoAntes) /\ DioLaVuelta
    /\ llamada.transcurrido = 2 * MILLON
    /\ Td # 0 /\ Derivativo # 0 /\ Derivativo = DerivativoEsperado
    /\ Ti # 0 /\ ~Retenida

====
